---- MODULE Spec2Model ----
(***************************************************************************)
(* Authentication / authorization core of api_psf: JWT issuance, the       *)
(* access (bearer) and refresh (cookie) validation paths, refresh          *)
(* rotation, logout, and the role gate in front of the user-management     *)
(* endpoints.  Time is counted in whole seconds, the resolution of the     *)
(* exp / iat claims.                                                       *)
(***************************************************************************)
EXTENDS Integers, FiniteSets, Sequences, TLC

\* ---------------------------------------------------------------- bounds
\* clock advances, token pairs issued and writes to the user table other
\* than the stamp of a login that issued a pair, all together, per behaviour
MaxEvents == 3

\* the same, per behaviour of a process started under a configuration
\* other than the defaults
MaxConfigEvents == 2

\* entries in the list of one autorizar_multiple call
MaxBatch == 2

\* ------------------------------------------------- state: the environment
VARIABLES
    db,             \* whether get_db_connection reaches the database
    SECRET_KEY,     \* settings.*, read from the environment at start
    ALGORITHM,
    ACCESS_TOKEN_EXPIRE_MINUTES,
    REFRESH_TOKEN_EXPIRE_DAYS,
    ENVIRONMENT

\* the Settings instance: set once when the module is imported
settings ==
    <<SECRET_KEY, ALGORITHM, ACCESS_TOKEN_EXPIRE_MINUTES,
      REFRESH_TOKEN_EXPIRE_DAYS, ENVIRONMENT>>

\* ------------------------------------------------- configuration values
\* os.getenv defaults
DefaultAccessMinutes == 30
DefaultRefreshDays == 7
DefaultAlgorithm == "HS256"
DefaultEnvironment == "development"

\* a key is modelled by its characters; only its length is ever looked at
MinSecretKeyLength == 32

KeyOfLen(n) == [i \in 1..n |-> "k"]

\* mutant: only the presence of the key is checked
validate_security_settings_PresenceOnly(key, algorithm) ==
    IF key = <<>> THEN "ValueError"
    ELSE IF algorithm = "" THEN "ValueError"
    ELSE "ok"

validate_security_settings(key, algorithm) ==
    IF key = <<>> THEN "ValueError"
    ELSE IF Len(key) < MinSecretKeyLength THEN "ValueError"
    ELSE IF algorithm = "" THEN "ValueError"
    ELSE "ok"

\* config.py raises at import when the validation fails: a process that
\* is up has passed it
Running == validate_security_settings(SECRET_KEY, ALGORITHM) = "ok"

SecondsPerMinute == 60
SecondsPerDay == 86400

REFRESH_COOKIE_NAME == "refresh_token"

REFRESH_COOKIE_MAX_AGE == REFRESH_TOKEN_EXPIRE_DAYS * 24 * 60 * 60

\* mutant: the flag is on in every environment
COOKIE_SECURE_Always(env) == TRUE

COOKIE_SECURE(env) == env = "production"

COOKIE_SAMESITE == "lax"

\* timedelta(minutes=ACCESS_TOKEN_EXPIRE_MINUTES), in seconds
AccessTTL == ACCESS_TOKEN_EXPIRE_MINUTES * SecondsPerMinute

\* timedelta(days=REFRESH_TOKEN_EXPIRE_DAYS), in seconds
RefreshTTL == REFRESH_TOKEN_EXPIRE_DAYS * SecondsPerDay

\* ------------------------------------------------------------ HTTP codes
HTTP_200_OK == 200
HTTP_401_UNAUTHORIZED == 401
HTTP_403_FORBIDDEN == 403
HTTP_500_INTERNAL_SERVER_ERROR == 500

\* ------------------------------------------------------------ the domain
UserIds == 1..3
NoUser == 0

\* execute_auth_query raising DatabaseError instead of returning a row
DatabaseError == -1

\* the detail DatabaseError carries: the driver's own message
DataLayerDetail == "Error en la autenticacion: <driver message>"

\* the detail of the 500 that login's own handler raises
LoginFailedDetail ==
    "Ocurrio un error inesperado durante el proceso de login."

\* stored user names are lower case (validar_formato_nombre_usuario);
\* a login form may carry any spelling
StoreNames == {"alice", "bob", "carol"}
FormNames == StoreNames \cup {"Alice", "zed"}

Lower(n) == IF n = "Alice" THEN "alice" ELSE n

Passwords == {"pw1", "pw2"}
RoleNames == {"Administrador", "Supervisor"}

Absent == "<absent>"

\* ---------------------------------------------------------------- tokens
\* A token string is modelled by its claim set plus the state of its
\* signature: "ok" (signed with SECRET_KEY), "bad" (forged or tampered),
\* "malformed" (not a JWT at all), "absent" (no token / empty string).
Tok(sub, iat, exp, type, sig) ==
    [sub |-> sub, iat |-> iat, exp |-> exp, type |-> type, sig |-> sig]

NoToken == Tok(Absent, -1, -1, Absent, "absent")
Malformed == Tok(Absent, -1, -1, Absent, "malformed")

\* mutant: the lifetime is subtracted instead of added
create_access_token_Negated(sub, now) ==
    Tok(sub, now, now - AccessTTL, "access", "ok")

create_access_token(sub, now) ==
    Tok(sub, now, now + AccessTTL, "access", "ok")

create_refresh_token(sub, now) ==
    Tok(sub, now, now + RefreshTTL, "refresh", "ok")

\* mutant: exp is compared with the token's own iat, not with the clock
jwt_decode_AtIssueTime(token, now) ==
    IF token.sig = "malformed" \/ token.sig = "absent" THEN "malformed"
    ELSE IF token.sig # "ok" THEN "bad_signature"
    ELSE IF token.exp # -1 /\ token.exp < token.iat THEN "expired"
    ELSE "ok"

\* jose.jwt.decode: signature first, then exp against the clock at decode
\* time; a token without exp is not checked for expiry.
jwt_decode(token, now) ==
    IF token.sig = "malformed" \/ token.sig = "absent" THEN "malformed"
    ELSE IF token.sig # "ok" THEN "bad_signature"
    ELSE IF token.exp # -1 /\ token.exp < now THEN "expired"
    ELSE "ok"

\* ------------------------------------------------------------ HTTP results
HTTPException(status_code, detail, hdr) ==
    [ok |-> FALSE, status |-> status_code, detail |-> detail,
     hdr |-> hdr, user |-> NoUser]

Resolved(uid) ==
    [ok |-> TRUE, status |-> HTTP_200_OK, detail |-> "", hdr |-> FALSE,
     user |-> uid]

\* an exception no handler of the endpoint catches: the application
\* boundary answers it
Unhandled ==
    HTTPException(HTTP_500_INTERNAL_SERVER_ERROR, "Internal Server Error",
                  FALSE)

\* --------------------------------------------------------- the user store
\* WHERE nombre_usuario = ? AND es_eliminado = 0, one row or none.  The
\* comparison is the database's, which ignores case.
Matches(store, name) ==
    {u \in UserIds : /\ store[u].exists
                     /\ ~store[u].es_eliminado
                     /\ Lower(store[u].nombre_usuario) = Lower(name)}

execute_auth_query(store, name) ==
    IF db = "down" THEN DatabaseError
    ELSE IF name = Absent \/ Matches(store, name) = {} THEN NoUser
    ELSE CHOOSE u \in Matches(store, name) : TRUE

\* ------------------------------------------------------ credential check
\* passlib hash / verify: the stored value is a hash of the secret, never
\* the secret itself
get_password_hash(password) == <<"hash", password>>

verify_password(password, hashed) == hashed = get_password_hash(password)

\* ------------------------------------------------------- validation paths
credentials_exception ==
    HTTPException(HTTP_401_UNAUTHORIZED,
                  "No se pudieron validar las credenciales", TRUE)

\* OAuth2PasswordBearer: no bearer token in the Authorization header
oauth2_scheme(token) ==
    IF token.sig = "absent"
    THEN HTTPException(HTTP_401_UNAUTHORIZED, "Not authenticated", TRUE)
    ELSE Resolved(NoUser)

\* mutant: the type claim is not looked at
get_current_user_AnyKind(token, store, now) ==
    IF ~oauth2_scheme(token).ok THEN oauth2_scheme(token)
    ELSE IF jwt_decode(token, now) # "ok" THEN credentials_exception
    ELSE IF token.sub = Absent THEN credentials_exception
    ELSE LET user == execute_auth_query(store, token.sub) IN
         IF user = DatabaseError THEN Unhandled
         ELSE IF user = NoUser THEN credentials_exception
         ELSE IF ~store[user].es_activo
              THEN HTTPException(HTTP_401_UNAUTHORIZED, "Usuario inactivo",
                                 FALSE)
         ELSE Resolved(user)

\* mutant: an expired token gets an answer of its own
get_current_user_TellsExpired(token, store, now) ==
    IF ~oauth2_scheme(token).ok THEN oauth2_scheme(token)
    ELSE IF jwt_decode(token, now) = "expired"
         THEN HTTPException(HTTP_401_UNAUTHORIZED, "Token expirado", TRUE)
    ELSE IF jwt_decode(token, now) # "ok" THEN credentials_exception
    ELSE IF token.sub = Absent \/ token.type # "access"
         THEN credentials_exception
    ELSE LET user == execute_auth_query(store, token.sub) IN
         IF user = DatabaseError THEN Unhandled
         ELSE IF user = NoUser THEN credentials_exception
         ELSE IF ~store[user].es_activo
              THEN HTTPException(HTTP_401_UNAUTHORIZED, "Usuario inactivo",
                                 FALSE)
         ELSE Resolved(user)

\* mutant: es_activo is not looked at
get_current_user_IgnoresActive(token, store, now) ==
    IF ~oauth2_scheme(token).ok THEN oauth2_scheme(token)
    ELSE IF jwt_decode(token, now) # "ok" THEN credentials_exception
    ELSE IF token.sub = Absent \/ token.type # "access"
         THEN credentials_exception
    ELSE LET user == execute_auth_query(store, token.sub) IN
         IF user = DatabaseError THEN Unhandled
         ELSE IF user = NoUser THEN credentials_exception
         ELSE Resolved(user)

get_current_user(token, store, now) ==
    IF ~oauth2_scheme(token).ok THEN oauth2_scheme(token)
    ELSE IF jwt_decode(token, now) # "ok" THEN credentials_exception
    ELSE IF token.sub = Absent \/ token.type # "access"
         THEN credentials_exception
    ELSE LET user == execute_auth_query(store, token.sub) IN
         IF user = DatabaseError THEN Unhandled
         ELSE IF user = NoUser THEN credentials_exception
         ELSE IF ~store[user].es_activo
              THEN HTTPException(HTTP_401_UNAUTHORIZED, "Usuario inactivo",
                                 FALSE)
         ELSE Resolved(user)

\* mutant: without a cookie the bearer token of the header is taken
refresh_token_param_HeaderFallback(cookie, header) ==
    IF cookie.sig = "absent" THEN header ELSE cookie

\* refresh_token: Optional[str] = Cookie(None, alias=REFRESH_COOKIE_NAME):
\* the parameter is filled from the cookie of that name and nothing else
refresh_token_param(cookie, header) == cookie

\* mutant: a refresh token is good for the second it was made in only
decode_refresh_token_OneShot(token, now) ==
    IF jwt_decode(token, now) # "ok" \/ token.type # "refresh"
       \/ token.iat < now
    THEN HTTPException(HTTP_401_UNAUTHORIZED, "Invalid refresh token", TRUE)
    ELSE Resolved(NoUser)

decode_refresh_token(token, now) ==
    IF jwt_decode(token, now) # "ok" \/ token.type # "refresh"
    THEN HTTPException(HTTP_401_UNAUTHORIZED, "Invalid refresh token", TRUE)
    ELSE Resolved(NoUser)

\* mutant: a missing cookie is handed to the decoder like any other value
get_current_user_from_refresh_NoCookieCheck(refresh_token, store, now) ==
    IF ~decode_refresh_token(refresh_token, now).ok
    THEN decode_refresh_token(refresh_token, now)
    ELSE IF refresh_token.sub = Absent
         THEN HTTPException(HTTP_401_UNAUTHORIZED, "Invalid refresh token",
                            FALSE)
    ELSE LET user == execute_auth_query(store, refresh_token.sub) IN
         IF user = DatabaseError
         THEN HTTPException(HTTP_401_UNAUTHORIZED, "Invalid refresh token",
                            FALSE)
         ELSE IF user = NoUser
         THEN HTTPException(HTTP_401_UNAUTHORIZED, "Usuario no encontrado",
                            FALSE)
         ELSE IF ~store[user].es_activo
              THEN HTTPException(HTTP_401_UNAUTHORIZED, "Usuario inactivo",
                                 FALSE)
         ELSE Resolved(user)

get_current_user_from_refresh(refresh_token, store, now) ==
    IF refresh_token.sig = "absent"
    THEN HTTPException(HTTP_401_UNAUTHORIZED, "No refresh token provided",
                       FALSE)
    ELSE IF ~decode_refresh_token(refresh_token, now).ok
         THEN decode_refresh_token(refresh_token, now)
    ELSE IF refresh_token.sub = Absent
         THEN HTTPException(HTTP_401_UNAUTHORIZED, "Invalid refresh token",
                            FALSE)
    ELSE LET user == execute_auth_query(store, refresh_token.sub) IN
         IF user = DatabaseError
         THEN HTTPException(HTTP_401_UNAUTHORIZED, "Invalid refresh token",
                            FALSE)
         ELSE IF user = NoUser
         THEN HTTPException(HTTP_401_UNAUTHORIZED, "Usuario no encontrado",
                            FALSE)
         ELSE IF ~store[user].es_activo
              THEN HTTPException(HTTP_401_UNAUTHORIZED, "Usuario inactivo",
                                 FALSE)
         ELSE Resolved(user)

\* mutant: a database error is taken for a user that is not there
authenticate_user_ErrorAsUnknown(username, password, store) ==
    LET user == execute_auth_query(store, username) IN
    IF user = DatabaseError \/ user = NoUser
    THEN HTTPException(HTTP_401_UNAUTHORIZED, "Credenciales incorrectas",
                       FALSE)
    ELSE IF ~verify_password(password, store[user].contrasena)
         THEN HTTPException(HTTP_401_UNAUTHORIZED, "Credenciales incorrectas",
                            FALSE)
    ELSE IF ~store[user].es_activo
         THEN HTTPException(HTTP_401_UNAUTHORIZED, "Usuario inactivo", FALSE)
    ELSE Resolved(user)

\* mutant: the active flag is looked at before the secret
authenticate_user_ActiveFirst(username, password, store) ==
    LET user == execute_auth_query(store, username) IN
    IF user = DatabaseError
    THEN HTTPException(HTTP_500_INTERNAL_SERVER_ERROR,
                       "Error en el proceso de autenticacion", FALSE)
    ELSE IF user = NoUser
    THEN HTTPException(HTTP_401_UNAUTHORIZED, "Credenciales incorrectas",
                       FALSE)
    ELSE IF ~store[user].es_activo
         THEN HTTPException(HTTP_401_UNAUTHORIZED, "Usuario inactivo", FALSE)
    ELSE IF ~verify_password(password, store[user].contrasena)
    THEN HTTPException(HTTP_401_UNAUTHORIZED, "Credenciales incorrectas",
                       FALSE)
    ELSE Resolved(user)

\* authenticate_user, its verdict; the write of fecha_ultimo_acceso is in
\* AuthenticatedStore
authenticate_user(username, password, store) ==
    LET user == execute_auth_query(store, username) IN
    IF user = DatabaseError
    THEN HTTPException(HTTP_500_INTERNAL_SERVER_ERROR,
                       "Error en el proceso de autenticacion", FALSE)
    ELSE IF user = NoUser \/ ~verify_password(password, store[user].contrasena)
    THEN HTTPException(HTTP_401_UNAUTHORIZED, "Credenciales incorrectas",
                       FALSE)
    ELSE IF ~store[user].es_activo
         THEN HTTPException(HTTP_401_UNAUTHORIZED, "Usuario inactivo", FALSE)
    ELSE Resolved(user)

\* mutant: the UPDATE has lost its WHERE clause
AuthenticatedStore_EveryRow(store, user, now) ==
    [u \in UserIds |-> [store[u] EXCEPT !.fecha_ultimo_acceso = now]]

\* UPDATE usuario SET fecha_ultimo_acceso = GETDATE() WHERE usuario_id = ?
AuthenticatedStore(store, user, now) ==
    [store EXCEPT ![user].fecha_ultimo_acceso = now]

\* ------------------------------------------------------ authorization gate
\* mutant: the roles are the ones the user had when the process started
get_user_role_names_AtStart(store, user) ==
    IF user = 1 THEN {"Administrador"}
    ELSE IF user = 2 THEN {"Supervisor"}
    ELSE {}

get_user_role_names(store, user) == store[user].roles

\* mutant: the role name of the comment above the declaration
require_admin_CommentName == {"admin"}

require_admin == {"Administrador"}

\* RoleChecker(allowed_roles)(current_user): identity first, then the
\* user's active role names against the allowed ones
RoleChecker(allowed_roles, token, store, now) ==
    LET current == get_current_user(token, store, now) IN
    IF ~current.ok THEN current
    ELSE IF get_user_role_names(store, current.user) \cap allowed_roles = {}
         THEN HTTPException(HTTP_403_FORBIDDEN,
                            "No tiene permisos suficientes", FALSE)
    ELSE current

\* ------------------------------------------------- user-management services
HTTP_201_CREATED == 201
HTTP_404_NOT_FOUND == 404
HTTP_409_CONFLICT == 409

Found(store, uid) == store[uid].exists /\ ~store[uid].es_eliminado

NameTaken(store, name, except) ==
    \E u \in UserIds \ {except} :
        Found(store, u) /\ store[u].nombre_usuario = Lower(name)

FreeIds(store) == {u \in UserIds : ~store[u].exists}

NewId(store) == CHOOSE u \in FreeIds(store) : \A v \in FreeIds(store) : u <= v

Outcome(status_code, store) == [status |-> status_code, store |-> store]

UsuarioService_crear_usuario(store, name, password) ==
    IF NameTaken(store, name, NoUser) \/ FreeIds(store) = {}
    THEN Outcome(HTTP_409_CONFLICT, store)
    ELSE Outcome(HTTP_201_CREATED,
                 [store EXCEPT ![NewId(store)] =
                     [exists |-> TRUE, nombre_usuario |-> Lower(name),
                      contrasena |-> get_password_hash(password),
                      es_activo |-> TRUE, es_eliminado |-> FALSE,
                      roles |-> {}, fecha_ultimo_acceso |-> -1]])

\* update_data carries nombre_usuario and / or es_activo; Absent and
\* "keep" stand for a field that was not sent
UsuarioService_actualizar_usuario(store, uid, name, activo) ==
    IF ~Found(store, uid) THEN Outcome(HTTP_404_NOT_FOUND, store)
    ELSE IF name # Absent /\ NameTaken(store, name, uid)
         THEN Outcome(HTTP_409_CONFLICT, store)
    ELSE Outcome(HTTP_200_OK,
                 [store EXCEPT
                    ![uid].nombre_usuario =
                        IF name = Absent THEN @ ELSE Lower(name),
                    ![uid].es_activo =
                        IF activo = "keep" THEN @ ELSE activo = "true"])

UsuarioService_eliminar_usuario(store, uid) ==
    IF ~Found(store, uid) THEN Outcome(HTTP_404_NOT_FOUND, store)
    ELSE Outcome(HTTP_200_OK,
                 [store EXCEPT ![uid].es_eliminado = TRUE,
                               ![uid].es_activo = FALSE,
                               ![uid].roles = {}])

UsuarioService_asignar_rol_a_usuario(store, uid, rol) ==
    IF ~Found(store, uid) THEN Outcome(HTTP_404_NOT_FOUND, store)
    ELSE IF rol \in store[uid].roles THEN Outcome(HTTP_409_CONFLICT, store)
    ELSE Outcome(HTTP_201_CREATED,
                 [store EXCEPT ![uid].roles = @ \cup {rol}])

UsuarioService_revocar_rol_de_usuario(store, uid, rol) ==
    IF ~store[uid].exists \/ rol \notin store[uid].roles
    THEN Outcome(HTTP_404_NOT_FOUND, store)
    ELSE Outcome(HTTP_200_OK, [store EXCEPT ![uid].roles = @ \ {rol}])

\* ------------------------------------------------------------------ state
VARIABLES
    usuario,        \* table usuario with each user's active role names
    now,            \* the wall clock, seconds
    events,         \* clock advances, issues and writes so far
    budget,         \* how many of them the behaviour is followed for
    issued,         \* every token handed out so far (clients may keep them)
    chain,          \* <<token, usuario_id>>: the user whose login began
                    \* the chain of rotations the token was issued in
    rotations,      \* the /refresh/ calls the workers are in the middle of
    pdespe_supervisor00,    \* sautor of each record of the table
    multiple,       \* the autorizar_multiple call being answered
    req,            \* the last request served
    resp            \* its response

\* the state of AutorizacionService
autorizacion == <<pdespe_supervisor00, multiple>>

vars ==
    <<usuario, db, settings, now, events, budget, issued, chain, rotations,
      autorizacion, req, resp>>

\* ------------------------------------------------------- requests, responses
Cookie(action, value, env) ==
    [action |-> action, key |-> REFRESH_COOKIE_NAME, value |-> value,
     httponly |-> action = "set",
     secure |-> action = "set" /\ COOKIE_SECURE(env),
     samesite |-> COOKIE_SAMESITE,
     max_age |-> IF action = "set" THEN REFRESH_COOKIE_MAX_AGE ELSE 0,
     path |-> "/"]

NoCookie ==
    [action |-> "none", key |-> "", value |-> NoToken, httponly |-> FALSE,
     secure |-> FALSE, samesite |-> "", max_age |-> 0, path |-> ""]

\* token: the bearer token of the Authorization header; cookie: the value
\* of the refresh cookie
Request(op, token, cookie, username, password, at) ==
    [op |-> op, token |-> token, cookie |-> cookie, username |-> username,
     password |-> password, at |-> at]

\* a response that carries no token, no cookie and ran no endpoint body
Rejection(op, exc) ==
    [op |-> op, status |-> exc.status, detail |-> exc.detail,
     hdr |-> exc.hdr, access_token |-> NoToken, set_cookie |-> NoCookie,
     user |-> NoUser, roles |-> {}, executed |-> FALSE]

Success(op, status_code, access, cookie, user, roles) ==
    [op |-> op, status |-> status_code, detail |-> "", hdr |-> FALSE,
     access_token |-> access, set_cookie |-> cookie, user |-> user,
     roles |-> roles, executed |-> TRUE]

NoRequest == Request("none", NoToken, NoToken, Absent, Absent, 0)

NoResponse == Rejection("none", HTTPException(0, "", FALSE))

\* tokens a caller can put on the wire: the ones handed out, copies of
\* them with the expiry pushed out (which breaks the signature), garbage,
\* and nothing at all
Forged(t) == [t EXCEPT !.sig = "bad", !.exp = t.exp + RefreshTTL]

Presentable(tokens) ==
    tokens \cup {Forged(t) : t \in tokens} \cup {Malformed, NoToken}

\* tokens signed with the same key that this issuer never produces: an
\* unknown type claim, no type claim, no sub claim
Foreign ==
    {Tok("alice", 0, -1, "other", "ok"), Tok("alice", 0, -1, Absent, "ok"),
     Tok(Absent, 0, -1, "access", "ok"), Tok(Absent, 0, -1, "refresh", "ok")}

Wire(tokens) == Presentable(tokens) \cup Foreign

\* what the callers of the user-management endpoints send
Bearer(tokens) == tokens \cup {NoToken}

\* the clock may move between the two utcnow() calls of one handler
Drift == {0, 1}

\* steps of the clock between requests: up to one second before a token
\* issued just now expires; a handler's own second brings the clock onto
\* and past the expiry instant
TickSteps == {d \in {AccessTTL - 1, RefreshTTL - 1} : d > 0}

\* the users a token's chain began with
ChainOf(pairs, token) == {pair[2] : pair \in {q \in pairs : q[1] = token}}

\* two workers serve /refresh/ calls side by side
Workers == {1, 2}

\* a worker that is serving no /refresh/ call
NoRotation ==
    [pc |-> "idle", cookie |-> NoToken, at |-> 0, user |-> NoUser,
     username |-> Absent, access_token |-> NoToken,
     refresh_token |-> NoToken, status |-> 0, detail |-> ""]

\* ------------------------------------------------------------------- Init
UserRow(name, password, activo, roles) ==
    [exists |-> TRUE, nombre_usuario |-> name,
     contrasena |-> get_password_hash(password), es_activo |-> activo,
     es_eliminado |-> FALSE, roles |-> roles, fecha_ultimo_acceso |-> -1]

NoRow ==
    [exists |-> FALSE, nombre_usuario |-> "", contrasena |-> <<>>,
     es_activo |-> FALSE, es_eliminado |-> FALSE, roles |-> {},
     fecha_ultimo_acceso |-> -1]

\* ------------------------------------------------- AutorizacionService
\* lots with a record in pdespe_supervisor00, and one without
Lotes == {"L1", "L2"}
LoteDesconocido == "L9"
FechaDestajo == "2025-10-01"

\* the records of the table: one per lot, at the one date, process and
\* subprocess the entries name
Claves == Lotes \X {FechaDestajo}

\* sautor: 0 pending, 1 authorised
Pendiente == 0
Autorizado == 1

\* AutorizacionUpdate as the dict the service reads; a key the caller left
\* out reads as None (Absent)
Entradas ==
    [lote : Lotes \cup {LoteDesconocido, Absent},
     fecha_destajo : {FechaDestajo, Absent},
     nuevo_estado : {Pendiente, Autorizado}]

\* the lists a call is made with, the empty one included
Listas == UNION {[1..n -> Entradas] : n \in 0..MaxBatch}

\* errores[:10]
ErroresMostrados == 10

NoMultiple ==
    [pc |-> "idle", autorizaciones |-> <<>>, faults |-> {},
     antes |-> [k \in Claves |-> Pendiente], status |-> 0,
     exitosos |-> 0, fallidos |-> 0, total_procesados |-> 0,
     errores |-> <<>>]

\* autorizar_proceso: the check query, then the UPDATE unless the record
\* already has the state; a store error at either query leaves the record
\* as it was (execute_update rolls back)
autorizar_proceso(table, lote, fecha_destajo, nuevo_estado, fault) ==
    IF fault
    THEN [ok |-> FALSE, status |-> 500, table |-> table]
    ELSE IF <<lote, fecha_destajo>> \notin DOMAIN table
    THEN [ok |-> FALSE, status |-> 404, table |-> table]
    ELSE IF table[<<lote, fecha_destajo>>] = nuevo_estado
    THEN [ok |-> TRUE, status |-> 200, table |-> table]
    ELSE [ok |-> TRUE, status |-> 200,
          table |-> [table EXCEPT ![<<lote, fecha_destajo>>] = nuevo_estado]]

\* mutant: one iteration of the loop that gives up after the first failure
procesar_entrada_StopsAtFailure(acc, auth_data, fault) ==
    IF acc.fallidos > 0
    THEN acc
    ELSE IF auth_data.lote = Absent \/ auth_data.fecha_destajo = Absent
    THEN [acc EXCEPT !.fallidos = @ + 1,
                     !.errores = Append(@, "Datos incompletos")]
    ELSE LET r == autorizar_proceso(acc.table, auth_data.lote,
                     auth_data.fecha_destajo, auth_data.nuevo_estado, fault)
         IN  IF r.ok
             THEN [acc EXCEPT !.exitosos = @ + 1, !.table = r.table]
             ELSE [acc EXCEPT !.fallidos = @ + 1,
                              !.errores = Append(@, auth_data.lote)]

\* one iteration of the loop of autorizar_multiple
procesar_entrada(acc, auth_data, fault) ==
    IF auth_data.lote = Absent \/ auth_data.fecha_destajo = Absent
    THEN [acc EXCEPT !.fallidos = @ + 1,
                     !.errores = Append(@, "Datos incompletos")]
    ELSE LET r == autorizar_proceso(acc.table, auth_data.lote,
                     auth_data.fecha_destajo, auth_data.nuevo_estado, fault)
         IN  IF r.ok
             THEN [acc EXCEPT !.exitosos = @ + 1, !.table = r.table]
             ELSE [acc EXCEPT !.fallidos = @ + 1,
                              !.errores = Append(@, auth_data.lote)]

\* the loop: the entries in order, each against the table the earlier
\* ones left
RECURSIVE procesar(_, _, _, _)
procesar(acc, autorizaciones, faults, i) ==
    IF i > Len(autorizaciones)
    THEN acc
    ELSE procesar(procesar_entrada(acc, autorizaciones[i], i \in faults),
                  autorizaciones, faults, i + 1)

\* the table when the process starts: an administrator, a second user and
\* a free usuario_id
usuario_at_start ==
    [u \in UserIds |->
        IF u = 1 THEN UserRow("alice", "pw1", TRUE, {"Administrador"})
        ELSE IF u = 2 THEN UserRow("bob", "pw2", TRUE, {"Supervisor"})
        ELSE NoRow]

Start ==
    /\ usuario = usuario_at_start
    /\ db = "up"
    /\ now = 0
    /\ events = 0
    /\ issued = {}
    /\ chain = {}
    /\ rotations = [w \in Workers |-> NoRotation]
    /\ pdespe_supervisor00 = [k \in Claves |-> Pendiente]
    /\ multiple = NoMultiple
    /\ req = NoRequest
    /\ resp = NoResponse

\* a process started with nothing but SECRET_KEY in its environment
Init ==
    /\ Start
    /\ SECRET_KEY = KeyOfLen(MinSecretKeyLength)
    /\ ALGORITHM = DefaultAlgorithm
    /\ ACCESS_TOKEN_EXPIRE_MINUTES = DefaultAccessMinutes
    /\ REFRESH_TOKEN_EXPIRE_DAYS = DefaultRefreshDays
    /\ ENVIRONMENT = DefaultEnvironment
    /\ budget = MaxEvents

\* what the environment may hold when the process starts: no key, a key
\* one character short, a key of the minimum length; no algorithm or the
\* default; lifetimes of zero or the defaults, and an access lifetime of
\* twice the default refresh lifetime; either environment name
SecretKeys ==
    {KeyOfLen(0), KeyOfLen(MinSecretKeyLength - 1),
     KeyOfLen(MinSecretKeyLength)}

Algorithms == {"", DefaultAlgorithm}

AccessMinutes ==
    {0, DefaultAccessMinutes, 2 * DefaultRefreshDays * 24 * 60}

RefreshDays == {0, DefaultRefreshDays}

Environments == {"development", "production"}

InitConfig ==
    /\ Start
    /\ SECRET_KEY \in SecretKeys
    /\ ALGORITHM \in Algorithms
    /\ ACCESS_TOKEN_EXPIRE_MINUTES \in AccessMinutes
    /\ REFRESH_TOKEN_EXPIRE_DAYS \in RefreshDays
    /\ ENVIRONMENT \in Environments
    /\ budget = MaxConfigEvents

\* ---------------------------------------------------------------- actions
\* the process is up and no request is being served
Idle == Running /\ req.op = "none"

Tick(d) ==
    /\ Idle
    /\ events < budget
    /\ now' = now + d
    /\ events' = events + 1
    /\ UNCHANGED <<usuario, db, settings, budget, autorizacion, rotations,
                   issued, chain, req, resp>>

\* POST /login/
login(username, password, d) ==
    /\ Idle
    /\ req' = Request("login", NoToken, NoToken, username, password, now)
    /\ LET auth == authenticate_user(username, password, usuario)
           access_token == create_access_token(username, now)
           refresh_token == create_refresh_token(username, now + d)
       IN IF ~auth.ok
          THEN /\ resp' = Rejection("login", auth)
               /\ UNCHANGED <<usuario, now, events, issued, chain>>
          ELSE /\ events + 1 + d <= budget
               /\ events' = events + 1 + d
               /\ usuario' = AuthenticatedStore(usuario, auth.user, now)
               /\ now' = now + d
               /\ issued' = issued \cup {access_token, refresh_token}
               /\ chain' = chain \cup ({access_token, refresh_token}
                                        \X {auth.user})
               /\ resp' = Success("login", HTTP_200_OK, access_token,
                                  Cookie("set", refresh_token, ENVIRONMENT),
                                  auth.user,
                                  get_user_role_names(usuario, auth.user))
    /\ UNCHANGED <<db, settings, budget, autorizacion, rotations>>

\* mutant: the stamp is written after the roles were fetched
login_database_lost_StampLast(username, password, query) ==
    /\ Idle
    /\ db = "up"
    /\ authenticate_user(username, password, usuario).ok
    /\ req' = Request("login", NoToken, NoToken, username, password, now)
    /\ db' = "down"
    /\ resp' = Rejection("login",
                 IF query = "update"
                 THEN HTTPException(HTTP_500_INTERNAL_SERVER_ERROR,
                                    "Error en el proceso de autenticacion",
                                    FALSE)
                 ELSE HTTPException(HTTP_500_INTERNAL_SERVER_ERROR,
                                    LoginFailedDetail,
                                    FALSE))
    /\ IF query = "update" THEN UNCHANGED events
       ELSE /\ events < budget
            /\ events' = events + 1
    /\ UNCHANGED <<usuario, settings, now, budget, autorizacion, rotations,
                   issued, chain>>

\* POST /login/ when the database is lost while the call is served, after
\* the SELECT of authenticate_user has found the user: before the UPDATE
\* (authenticate_user answers 500) or before the roles are fetched (the
\* stamp is written and login's own handler answers 500)
login_database_lost(username, password, query) ==
    /\ Idle
    /\ db = "up"
    /\ authenticate_user(username, password, usuario).ok
    /\ req' = Request("login", NoToken, NoToken, username, password, now)
    /\ db' = "down"
    /\ LET auth == authenticate_user(username, password, usuario)
       IN IF query = "update"
          THEN /\ usuario' = usuario
               /\ resp' = Rejection("login",
                     HTTPException(HTTP_500_INTERNAL_SERVER_ERROR,
                                   "Error en el proceso de autenticacion",
                                   FALSE))
               /\ UNCHANGED events
          ELSE /\ events < budget
               /\ events' = events + 1
               /\ usuario' = AuthenticatedStore(usuario, auth.user, now)
               /\ resp' = Rejection("login",
                     HTTPException(HTTP_500_INTERNAL_SERVER_ERROR,
                                   LoginFailedDetail,
                                   FALSE))
    /\ UNCHANGED <<settings, now, budget, autorizacion, rotations, issued,
                   chain>>

\* GET /me/
get_me(token) ==
    /\ Idle
    /\ req' = Request("me", token, NoToken, Absent, Absent, now)
    /\ LET current_user == get_current_user(token, usuario, now)
       IN resp' = IF ~current_user.ok THEN Rejection("me", current_user)
                  ELSE Success("me", HTTP_200_OK, NoToken, NoCookie,
                               current_user.user,
                               get_user_role_names(usuario,
                                                   current_user.user))
    /\ UNCHANGED <<usuario, db, settings, budget, autorizacion, rotations,
                   now, events, issued, chain>>

\* mutant: the subject of the new pair is the first name of the table
refresh_access_token_FirstRow(cookie, header, d) ==
    /\ Idle
    /\ req' = Request("refresh", header, cookie, Absent, Absent, now)
    /\ LET current_user ==
               get_current_user_from_refresh(
                   refresh_token_param(cookie, header), usuario, now)
       IN IF ~current_user.ok
          THEN /\ resp' = Rejection("refresh", current_user)
               /\ UNCHANGED <<now, events, issued, chain>>
          ELSE LET username == usuario[1].nombre_usuario
                   new_access_token == create_access_token(username, now)
                   new_refresh_token ==
                       create_refresh_token(username, now + d)
               IN /\ events + 1 + d <= budget
                  /\ events' = events + 1 + d
                  /\ now' = now + d
                  /\ issued' = issued \cup {new_access_token,
                                            new_refresh_token}
                  /\ chain' = chain \cup ({new_access_token,
                                            new_refresh_token}
                                           \X ChainOf(chain, cookie))
                  /\ resp' = Success("refresh", HTTP_200_OK,
                                     new_access_token,
                                     Cookie("set", new_refresh_token,
                                            ENVIRONMENT),
                                     NoUser, {})
    /\ UNCHANGED <<usuario, db, settings, budget, autorizacion, rotations>>

\* mutant: the new pair inherits the iat of the presented token
refresh_access_token_CopiesIat(cookie, header, d) ==
    /\ Idle
    /\ req' = Request("refresh", header, cookie, Absent, Absent, now)
    /\ LET current_user ==
               get_current_user_from_refresh(
                   refresh_token_param(cookie, header), usuario, now)
       IN IF ~current_user.ok
          THEN /\ resp' = Rejection("refresh", current_user)
               /\ UNCHANGED <<now, events, issued, chain>>
          ELSE LET username == usuario[current_user.user].nombre_usuario
                   new_access_token ==
                       create_access_token(username, cookie.iat)
                   new_refresh_token ==
                       create_refresh_token(username, cookie.iat)
               IN /\ events + 1 + d <= budget
                  /\ events' = events + 1 + d
                  /\ now' = now + d
                  /\ issued' = issued \cup {new_access_token,
                                            new_refresh_token}
                  /\ chain' = chain \cup ({new_access_token,
                                            new_refresh_token}
                                           \X ChainOf(chain, cookie))
                  /\ resp' = Success("refresh", HTTP_200_OK,
                                     new_access_token,
                                     Cookie("set", new_refresh_token,
                                            ENVIRONMENT),
                                     NoUser, {})
    /\ UNCHANGED <<usuario, db, settings, budget, autorizacion, rotations>>

\* POST /refresh/: the dependency reads the cookie; an Authorization
\* header, if the caller sent one, is read by nothing
refresh_access_token(cookie, header, d) ==
    /\ Idle
    /\ req' = Request("refresh", header, cookie, Absent, Absent, now)
    /\ LET current_user ==
               get_current_user_from_refresh(
                   refresh_token_param(cookie, header), usuario, now)
       IN IF ~current_user.ok
          THEN /\ resp' = Rejection("refresh", current_user)
               /\ UNCHANGED <<now, events, issued, chain>>
          ELSE LET username == usuario[current_user.user].nombre_usuario
                   new_access_token == create_access_token(username, now)
                   new_refresh_token ==
                       create_refresh_token(username, now + d)
               IN /\ events + 1 + d <= budget
                  /\ events' = events + 1 + d
                  /\ now' = now + d
                  /\ issued' = issued \cup {new_access_token,
                                            new_refresh_token}
                  /\ chain' = chain \cup ({new_access_token,
                                            new_refresh_token}
                                           \X ChainOf(chain, cookie))
                  /\ resp' = Success("refresh", HTTP_200_OK,
                                     new_access_token,
                                     Cookie("set", new_refresh_token,
                                            ENVIRONMENT),
                                     NoUser, {})
    /\ UNCHANGED <<usuario, db, settings, budget, autorizacion, rotations>>

\* mutant: logout also closes the accounts
logout_ClosesAccounts ==
    /\ Idle
    /\ req' = Request("logout", NoToken, NoToken, Absent, Absent, now)
    /\ resp' = Success("logout", HTTP_200_OK, NoToken,
                       Cookie("delete", NoToken, ENVIRONMENT), NoUser, {})
    /\ usuario' = [u \in UserIds |-> [usuario[u] EXCEPT !.es_activo = FALSE]]
    /\ UNCHANGED <<db, settings, budget, autorizacion, rotations, now,
                   events, issued, chain>>

\* POST /logout/
logout ==
    /\ Idle
    /\ req' = Request("logout", NoToken, NoToken, Absent, Absent, now)
    /\ resp' = Success("logout", HTTP_200_OK, NoToken,
                       Cookie("delete", NoToken, ENVIRONMENT), NoUser, {})
    /\ UNCHANGED <<usuario, db, settings, budget, autorizacion, rotations,
                   now, events, issued, chain>>

\* mutant: the body runs whatever the gate says
Gated_BodyFirst(op, token, outcomes) ==
    /\ Idle
    /\ req' = Request(op, token, NoToken, Absent, Absent, now)
    /\ LET gate == RoleChecker(require_admin, token, usuario, now)
       IN \E outcome \in outcomes :
            /\ resp' = IF ~gate.ok THEN Rejection(op, gate)
                       ELSE Success(op, outcome.status, NoToken, NoCookie,
                                    gate.user, {})
            /\ usuario' = outcome.store
            /\ IF outcome.store = usuario THEN UNCHANGED events
               ELSE /\ events < budget
                    /\ events' = events + 1
    /\ UNCHANGED <<db, settings, budget, autorizacion, rotations, now,
                   issued, chain>>

\* an endpoint declared with dependencies=[Depends(require_admin)]: the
\* gate runs first and the body only when it let the caller through
Gated(op, token, outcomes) ==
    /\ Idle
    /\ req' = Request(op, token, NoToken, Absent, Absent, now)
    /\ LET gate == RoleChecker(require_admin, token, usuario, now)
       IN IF ~gate.ok
          THEN /\ resp' = Rejection(op, gate)
               /\ UNCHANGED <<usuario, events>>
          ELSE \E outcome \in outcomes :
                 /\ resp' = Success(op, outcome.status, NoToken, NoCookie,
                                    gate.user, {})
                 /\ usuario' = outcome.store
                 /\ IF outcome.store = usuario THEN UNCHANGED events
                    ELSE /\ events < budget
                         /\ events' = events + 1
    /\ UNCHANGED <<db, settings, budget, autorizacion, rotations, now,
                   issued, chain>>

\* the path and body parameters of each endpoint are read only by its body
list_usuarios(token) ==
    Gated("list_usuarios", token, {Outcome(HTTP_200_OK, usuario)})

crear_usuario(token) ==
    Gated("crear_usuario", token,
          {UsuarioService_crear_usuario(usuario, n, p) :
              n \in StoreNames, p \in Passwords})

actualizar_usuario(token) ==
    Gated("actualizar_usuario", token,
          {UsuarioService_actualizar_usuario(usuario, u, n, a) :
              u \in UserIds,
              <<n, a>> \in (StoreNames \X {"keep"})
                           \cup ({Absent} \X {"true", "false"})})

eliminar_usuario(token) ==
    Gated("eliminar_usuario", token,
          {UsuarioService_eliminar_usuario(usuario, u) : u \in UserIds})

assign_rol_to_usuario(token) ==
    Gated("assign_rol_to_usuario", token,
          {UsuarioService_asignar_rol_a_usuario(usuario, u, r) :
              u \in UserIds, r \in RoleNames})

revoke_rol_from_usuario(token) ==
    Gated("revoke_rol_from_usuario", token,
          {UsuarioService_revocar_rol_de_usuario(usuario, u, r) :
              u \in UserIds, r \in RoleNames})

consultar_perfil_externo(token) ==
    Gated("consultar_perfil_externo", token, {Outcome(HTTP_200_OK, usuario)})

\* the response leaves the server and the request is over
respond ==
    /\ ~Idle
    /\ req' = NoRequest
    /\ resp' = NoResponse
    /\ UNCHANGED <<usuario, db, settings, budget, autorizacion, rotations,
                   now, events, issued, chain>>

\* the database becomes unreachable, and reachable again, between requests
DatabaseGoesDown ==
    /\ Idle
    /\ db = "up"
    /\ db' = "down"
    /\ UNCHANGED <<usuario, settings, now, events, budget, autorizacion,
                   rotations, issued, chain, req, resp>>

DatabaseComesBack ==
    /\ Idle
    /\ db = "down"
    /\ db' = "up"
    /\ UNCHANGED <<usuario, settings, now, events, budget, autorizacion,
                   rotations, issued, chain, req, resp>>

\* every call but the one to /refresh/
Calls ==
    \/ \E d \in TickSteps : Tick(d)
    \/ \E n \in FormNames, p \in Passwords, d \in Drift : login(n, p, d)
    \/ \E t \in Wire(issued) : get_me(t)
    \/ logout
    \/ \E t \in Bearer(issued) : list_usuarios(t)
    \/ \E t \in Bearer(issued) : crear_usuario(t)
    \/ \E t \in Bearer(issued) : actualizar_usuario(t)
    \/ \E t \in Bearer(issued) : eliminar_usuario(t)
    \/ \E t \in Bearer(issued) : assign_rol_to_usuario(t)
    \/ \E t \in Bearer(issued) : revoke_rol_from_usuario(t)
    \/ \E t \in Bearer(issued) : consultar_perfil_externo(t)
    \/ respond

\* callers of /refresh/ send the cookie and no Authorization header
Next ==
    \/ Calls
    \/ \E t \in Wire(issued), d \in Drift :
          refresh_access_token(t, NoToken, d)

Spec == Init /\ [][Next]_vars

\* callers of /refresh/ send any cookie and any Authorization header
NextConfig ==
    \/ Calls
    \/ \E t \in Wire(issued), h \in Bearer(issued), d \in Drift :
          refresh_access_token(t, h, d)

\* the process under every configuration its environment can give it
SpecConfig == InitConfig /\ [][NextConfig]_vars

\* the sessions of a user table that nobody manages: logins, rotations and
\* reads of the own profile only
NextSessions ==
    \/ \E d \in TickSteps : Tick(d)
    \/ \E n \in FormNames, p \in Passwords, d \in Drift : login(n, p, d)
    \/ \E t \in Wire(issued) : get_me(t)
    \/ logout
    \/ \E t \in Wire(issued), d \in Drift :
          refresh_access_token(t, NoToken, d)
    \/ respond

SpecSessions == Init /\ [][NextSessions]_vars

\* the statements of login that reach for the database after the SELECT
LoginQueries == {"update", "roles"}

NextFaults ==
    \/ Next
    \/ DatabaseGoesDown
    \/ DatabaseComesBack
    \/ \E n \in FormNames, p \in Passwords, q \in LoginQueries :
          login_database_lost(n, p, q)

\* the process with a database that comes and goes
SpecFaults == Init /\ [][NextFaults]_vars

\* the process followed for one event more: the shortest behaviour in
\* which a user name passes from one usuario_id to another has two logins
\* and two writes
InitReuse ==
    /\ Start
    /\ SECRET_KEY = KeyOfLen(MinSecretKeyLength)
    /\ ALGORITHM = DefaultAlgorithm
    /\ ACCESS_TOKEN_EXPIRE_MINUTES = DefaultAccessMinutes
    /\ REFRESH_TOKEN_EXPIRE_DAYS = DefaultRefreshDays
    /\ ENVIRONMENT = DefaultEnvironment
    /\ budget = MaxEvents + 1

SpecReuse == InitReuse /\ [][Next]_vars

\* ---------------------------------------------------- concurrent rotations
\* POST /refresh/ step by step, one call per worker.  The steps are the
\* places where the handler reads something another call or the clock can
\* change: the dependency (decode against the clock, then the lookup),
\* create_access_token (utcnow), create_refresh_token (utcnow) with the
\* return.
InFlight(w) == rotations[w].pc \in {"access", "refresh"}

\* mutant: one rotation per subject at a time
rotation_validate_SingleFlight(w, cookie) ==
    /\ Running
    /\ rotations[w].pc = "idle"
    /\ LET current_user ==
               get_current_user_from_refresh(cookie, usuario, now)
           busy == \E v \in Workers \ {w} :
                      InFlight(v) /\ rotations[v].user = current_user.user
           verdict == IF current_user.ok /\ busy
                      THEN HTTPException(HTTP_409_CONFLICT,
                                         "Rotacion en curso", FALSE)
                      ELSE current_user
       IN rotations' =
            [rotations EXCEPT ![w] =
                [@ EXCEPT !.pc = IF verdict.ok THEN "access" ELSE "done",
                          !.cookie = cookie,
                          !.at = now,
                          !.user = verdict.user,
                          !.username =
                              IF verdict.ok
                              THEN usuario[verdict.user].nombre_usuario
                              ELSE Absent,
                          !.status = verdict.status,
                          !.detail = verdict.detail]]
    /\ UNCHANGED <<usuario, db, settings, now, events, budget, autorizacion,
                   issued, chain, req, resp>>

\* Depends(get_current_user_from_refresh)
rotation_validate(w, cookie) ==
    /\ Running
    /\ rotations[w].pc = "idle"
    /\ LET current_user ==
               get_current_user_from_refresh(cookie, usuario, now)
       IN rotations' =
            [rotations EXCEPT ![w] =
                [@ EXCEPT !.pc = IF current_user.ok THEN "access" ELSE "done",
                          !.cookie = cookie,
                          !.at = now,
                          !.user = current_user.user,
                          !.username =
                              IF current_user.ok
                              THEN usuario[current_user.user].nombre_usuario
                              ELSE Absent,
                          !.status = current_user.status,
                          !.detail = current_user.detail]]
    /\ UNCHANGED <<usuario, db, settings, now, events, budget, autorizacion,
                   issued, chain, req, resp>>

\* new_access_token = create_access_token(data={"sub": username})
rotation_access(w) ==
    /\ rotations[w].pc = "access"
    /\ rotations' =
         [rotations EXCEPT ![w] =
             [@ EXCEPT !.pc = "refresh",
                       !.access_token =
                           create_access_token(rotations[w].username, now)]]
    /\ UNCHANGED <<usuario, db, settings, now, events, budget, autorizacion,
                   issued, chain, req, resp>>

\* new_refresh_token = create_refresh_token(data={"sub": username}),
\* response.set_cookie and the return
rotation_refresh(w) ==
    /\ rotations[w].pc = "refresh"
    /\ LET new_access_token == rotations[w].access_token
           new_refresh_token ==
               create_refresh_token(rotations[w].username, now)
       IN /\ rotations' =
               [rotations EXCEPT ![w] =
                   [@ EXCEPT !.pc = "done",
                             !.refresh_token = new_refresh_token,
                             !.status = HTTP_200_OK]]
          /\ issued' = issued \cup {new_access_token, new_refresh_token}
          /\ chain' = chain \cup ({new_access_token, new_refresh_token}
                                   \X ChainOf(chain, rotations[w].cookie))
    /\ UNCHANGED <<usuario, db, settings, now, events, budget, autorizacion,
                   req, resp>>

\* the logins that hand out the tokens the calls present: two spellings of
\* one user's name and a second user
Sessions == {<<"alice", "pw1">>, <<"Alice", "pw1">>, <<"bob", "pw2">>}

\* the clock also moves by single seconds while calls are being served;
\* the cookie of a call is a token some login or rotation handed out, or
\* missing
NextRotations ==
    \/ \E d \in TickSteps \cup (Drift \ {0}) : Tick(d)
    \/ \E s \in Sessions : login(s[1], s[2], 0)
    \/ respond
    \/ \E w \in Workers, t \in Bearer(issued) : rotation_validate(w, t)
    \/ \E w \in Workers : rotation_access(w)
    \/ \E w \in Workers : rotation_refresh(w)

\* logins, the clock, and two /refresh/ calls whose steps interleave
SpecRotations == Init /\ [][NextRotations]_vars

\* ------------------------------------------------------------ vocabulary
AccessPath(t) == get_current_user(t, usuario, now)

RefreshPath(t) == get_current_user_from_refresh(t, usuario, now)

Unauthorized(r) == ~r.ok /\ r.status = HTTP_401_UNAUTHORIZED

Forbidden(r) == ~r.ok /\ r.status = HTTP_403_FORBIDDEN

GatedOps ==
    {"list_usuarios", "crear_usuario", "actualizar_usuario",
     "eliminar_usuario", "assign_rol_to_usuario", "revoke_rol_from_usuario",
     "consultar_perfil_externo"}

\* the step that serves a request of kind op
Serves(ops) == req.op = "none" /\ req'.op \in ops

\* ------------------------------------------------------------------ C1
\* C1: kind separation.  A token signed with the process key whose type
\* claim is not "access" is rejected with 401 by the access path, one whose
\* type claim is not "refresh" is rejected with 401 by the refresh path,
\* and no token at all is accepted by both paths.
C1_KindSeparation ==
    \A t \in Wire(issued) :
        /\ t.sig = "ok" /\ t.type # "access" => Unauthorized(AccessPath(t))
        /\ t.sig = "ok" /\ t.type # "refresh" => Unauthorized(RefreshPath(t))
        /\ ~(AccessPath(t).ok /\ RefreshPath(t).ok)

\* a refresh token that its own path accepts was sent as a bearer token
\* and turned away
C1_Witness ==
    /\ req.op = "me"
    /\ req.token \in issued
    /\ req.token.type = "refresh"
    /\ RefreshPath(req.token).ok
    /\ resp.status = HTTP_401_UNAUTHORIZED

\* ------------------------------------------------------------------ C2
\* C2: the access token in the body of a successful login, presented to
\* the access path right away, resolves to the user that was authenticated:
\* the usuario_id of the response and the row the form's user name names.
C2_LoginThenAccess ==
    resp.op = "login" /\ resp.status = HTTP_200_OK =>
        /\ AccessPath(resp.access_token).ok
        /\ AccessPath(resp.access_token).user = resp.user
        /\ resp.user = execute_auth_query(usuario, req.username)
        /\ verify_password(req.password, usuario[resp.user].contrasena)

\* a login under a spelling that differs from the stored name succeeded
C2_Witness ==
    /\ resp.op = "login"
    /\ resp.status = HTTP_200_OK
    /\ req.username # usuario[resp.user].nombre_usuario

\* ------------------------------------------------------------------ C3
\* C3: expiry is judged against the clock at decode time.  Once the clock
\* is past a token's exp its own path rejects it with 401; while the clock
\* is before exp the decode does not fail.
OwnPath(t) == IF t.type = "access" THEN AccessPath(t) ELSE RefreshPath(t)

C3_ExpiryAtDecodeTime ==
    \A t \in issued :
        /\ now > t.exp => Unauthorized(OwnPath(t))
        /\ now < t.exp => jwt_decode(t, now) = "ok"

\* an access token sent after its expiry was turned away while a refresh
\* token of the same age is one second short of its own expiry
C3_Witness ==
    /\ req.op = "me"
    /\ req.token \in issued
    /\ req.token.type = "access"
    /\ req.at > req.token.exp
    /\ resp.status = HTTP_401_UNAUTHORIZED
    /\ \E t \in issued : t.type = "refresh" /\ now = t.exp - 1
                         /\ jwt_decode(t, now) = "ok"

\* ------------------------------------------------------------------ C4
\* C4: a refresh call whose cookie the refresh path accepts answers 200
\* with one access token in the body and one refresh token in the cookie,
\* each accepted by its own path, each with an iat read from the clock
\* while the call was served; every 200 of the refresh endpoint has this
\* shape, whatever call produced the token that was presented.
C4_Rotation ==
    req.op = "refresh" =>
        /\ get_current_user_from_refresh(req.cookie, usuario, req.at).ok
             => resp.status = HTTP_200_OK
        /\ resp.status = HTTP_200_OK =>
             /\ resp.access_token.type = "access"
             /\ resp.set_cookie.action = "set"
             /\ resp.set_cookie.value.type = "refresh"
             /\ AccessPath(resp.access_token).ok
             /\ RefreshPath(resp.set_cookie.value).ok
             /\ resp.access_token.iat = req.at
             /\ resp.set_cookie.value.iat >= req.at
             /\ resp.set_cookie.value.iat <= now
             /\ {resp.access_token, resp.set_cookie.value} \subseteq issued

\* a rotation served later than the presented token was issued: the new
\* pair carries the later time
C4_Witness ==
    /\ req.op = "refresh"
    /\ resp.status = HTTP_200_OK
    /\ req.cookie.iat < resp.access_token.iat
    /\ req.cookie.iat < resp.set_cookie.value.iat

\* ------------------------------------------------------------------ C5
\* C5: a logout only asks the browser to delete the cookie.  Over a logout
\* step every issued token is accepted by the refresh path, and by the
\* access path, exactly as before it, and the user table is untouched.
C5_LogoutStep ==
    Serves({"logout"}) =>
        /\ resp'.set_cookie.action = "delete"
        /\ \A t \in issued :
             /\ get_current_user_from_refresh(t, usuario', now').ok
                  = get_current_user_from_refresh(t, usuario, now).ok
             /\ get_current_user(t, usuario', now').ok
                  = get_current_user(t, usuario, now).ok

C6_Gate ==
    \A t \in Wire(issued) :
        AccessPath(t).ok =>
            LET roles == get_user_role_names(usuario, AccessPath(t).user)
                admin == RoleChecker(require_admin, t, usuario, now)
            IN /\ \A allowed \in SUBSET RoleNames :
                    LET gate == RoleChecker(allowed, t, usuario, now)
                    IN /\ gate.ok <=> roles \cap allowed # {}
                       /\ ~gate.ok => Forbidden(gate)
                       /\ roles = {} => ~gate.ok
               /\ admin.ok <=> "Administrador" \in roles
               /\ ~admin.ok => Forbidden(admin)

\* a user left without any role called a gated endpoint and got 403
C6_Witness ==
    /\ req.op \in GatedOps
    /\ AccessPath(req.token).ok
    /\ get_user_role_names(usuario, AccessPath(req.token).user) = {}
    /\ resp.status = HTTP_403_FORBIDDEN

\* ------------------------------------------------------------------ C7
\* C7: each of the seven gated endpoints, called with a token whose
\* identity resolves but lacks "Administrador", answers 403, does not run
\* its body and leaves the user table as it was; called without a
\* resolvable identity it answers 401, likewise without running its body.
C7_GatedStep ==
    Serves(GatedOps) =>
        LET id == get_current_user(req'.token, usuario, now)
        IN /\ id.ok /\ "Administrador" \notin usuario[id.user].roles =>
                /\ resp'.status = HTTP_403_FORBIDDEN
                /\ ~resp'.executed
                /\ usuario' = usuario
           /\ ~id.ok =>
                /\ resp'.status = HTTP_401_UNAUTHORIZED
                /\ ~resp'.executed
                /\ usuario' = usuario
           /\ resp'.executed => id.ok /\ "Administrador" \in usuario[id.user].roles

C7_ForbiddenNotUnauthorized == [][C7_GatedStep]_vars

\* a delete asked for by a logged-in user who is not an administrator
C7_Witness ==
    /\ req.op = "eliminar_usuario"
    /\ AccessPath(req.token).ok
    /\ "Administrador" \notin usuario[AccessPath(req.token).user].roles
    /\ resp.status = HTTP_403_FORBIDDEN
    /\ ~resp.executed

\* ------------------------------------------------------------------ C8
\* C8: a refresh call without a cookie value answers 401, carries no
\* access token, sets no cookie and issues nothing; its rejection reason
\* differs from the reason of every rejected cookie value that is not
\* empty, while the status is the same 401.
MissingCookie == get_current_user_from_refresh(NoToken, usuario, now)

C8_NoCookieStep ==
    /\ Serves({"refresh"}) /\ req'.cookie = NoToken =>
          /\ resp'.status = HTTP_401_UNAUTHORIZED
          /\ resp'.access_token = NoToken
          /\ resp'.set_cookie = NoCookie
          /\ issued' = issued
    /\ Unauthorized(MissingCookie)
    /\ \A t \in Wire(issued) \ {NoToken} :
          ~decode_refresh_token(t, now).ok =>
              /\ RefreshPath(t).status = MissingCookie.status
              /\ RefreshPath(t).detail # MissingCookie.detail

C8_MissingCookie == [][C8_NoCookieStep]_vars

\* a refresh call without cookie was refused although a refresh token that
\* would be accepted is in circulation
C8_Witness ==
    /\ req.op = "refresh"
    /\ req.cookie = NoToken
    /\ resp.status = HTTP_401_UNAUTHORIZED
    /\ resp.detail = "No refresh token provided"
    /\ \E t \in issued : RefreshPath(t).ok

\* ------------------------------------------------------------------ C9
\* C9: on the access path and on the refresh path, a token whose only
\* defect is that it expired and a token whose only defect is its
\* signature get the same answer: same status 401, same detail, same
\* WWW-Authenticate header.
Expired(t) == t.sig = "ok" /\ jwt_decode(t, now) = "expired"

BadSignature(t) == jwt_decode(t, now) = "bad_signature"

C9_ExpiredLikeForged ==
    \A t1 \in Wire(issued), t2 \in Wire(issued) :
        Expired(t1) /\ BadSignature(t2) =>
            /\ AccessPath(t1) = AccessPath(t2)
            /\ RefreshPath(t1) = RefreshPath(t2)
            /\ Unauthorized(AccessPath(t1))
            /\ Unauthorized(RefreshPath(t1))

\* an expired access token was sent to /me/ and refused
C9_Witness ==
    /\ req.op = "me"
    /\ req.token.type = "access"
    /\ jwt_decode(req.token, req.at) = "expired"
    /\ resp.status = HTTP_401_UNAUTHORIZED
    /\ \E t \in Wire(issued) : BadSignature(t) /\ t.exp >= now

\* ----------------------------------------------------------------- C10
\* C10: a correctly signed, unexpired access token whose subject names no
\* live row, or names a row that is not active, is rejected with 401 by
\* the access path, in every state and so from the moment the user is
\* deactivated on.
C10_InactiveRejected ==
    \A t \in Wire(issued) :
        /\ t.sig = "ok"
        /\ t.type = "access"
        /\ jwt_decode(t, now) = "ok"
        /\ \/ execute_auth_query(usuario, t.sub) = NoUser
           \/ ~usuario[execute_auth_query(usuario, t.sub)].es_activo
        => Unauthorized(AccessPath(t))

\* an access token issued to a user who has been deactivated since was
\* sent before its expiry and refused
C10_Witness ==
    /\ req.op = "me"
    /\ req.token \in issued
    /\ req.token.type = "access"
    /\ jwt_decode(req.token, req.at) = "ok"
    /\ execute_auth_query(usuario, req.token.sub) # NoUser
    /\ ~usuario[execute_auth_query(usuario, req.token.sub)].es_activo
    /\ resp.status = HTTP_401_UNAUTHORIZED

\* ----------------------------------------------------------------- C11
\* C11: a login answers 401 when no live row carries the user name, when
\* the secret does not match the stored hash, or when the row is not
\* active; it answers 500 with a generic detail when the database cannot be
\* reached; it answers 200 otherwise; and every login that is not a 200
\* carries no access token and sets no cookie.
C11_LoginFailures ==
    resp.op = "login" =>
        LET rows == Matches(usuario, req.username)
            refused ==
                \/ rows = {}
                \/ \E u \in rows :
                     \/ usuario[u].contrasena # get_password_hash(req.password)
                     \/ ~usuario[u].es_activo
        IN /\ db = "up" /\ refused => resp.status = HTTP_401_UNAUTHORIZED
           /\ db = "up" /\ ~refused => resp.status = HTTP_200_OK
           /\ db = "down" =>
                /\ resp.status = HTTP_500_INTERNAL_SERVER_ERROR
                /\ resp.detail # DataLayerDetail
           /\ resp.status # HTTP_200_OK =>
                /\ resp.access_token = NoToken
                /\ resp.set_cookie = NoCookie
                /\ ~resp.executed

\* the right secret of a live, active user was sent while the database
\* was down, after a login with the right secret of an inactive user would
\* have been possible too
C11_Witness ==
    /\ resp.op = "login"
    /\ db = "down"
    /\ resp.status = HTTP_500_INTERNAL_SERVER_ERROR
    /\ \E u \in Matches(usuario, req.username) :
          /\ usuario[u].contrasena = get_password_hash(req.password)
          /\ usuario[u].es_activo
    /\ \E u \in UserIds : Found(usuario, u) /\ ~usuario[u].es_activo

\* ----------------------------------------------------------------- C12
\* C12: the token in the body of a 200 of login or refresh is of kind
\* access and the token in its cookie of kind refresh; the refresh endpoint
\* answers by the cookie alone: without a cookie it answers 401 whatever
\* the Authorization header carries, and with one it answers 200 exactly
\* when the refresh path accepts the cookie's value.
C12_CookieOnly ==
    /\ resp.op \in {"login", "refresh"} /\ resp.status = HTTP_200_OK =>
          /\ resp.access_token.type = "access"
          /\ resp.set_cookie.value.type = "refresh"
    /\ req.op = "refresh" =>
          /\ req.cookie = NoToken => resp.status = HTTP_401_UNAUTHORIZED
          /\ resp.status = HTTP_200_OK <=>
                get_current_user_from_refresh(req.cookie, usuario, req.at).ok

\* a refresh token the refresh path accepts was sent in the header, without
\* the cookie, and refused
C12_Witness ==
    /\ req.op = "refresh"
    /\ req.cookie = NoToken
    /\ req.token.type = "refresh"
    /\ RefreshPath(req.token).ok
    /\ resp.status = HTTP_401_UNAUTHORIZED

C14_LogoutSameAttributes ==
    resp.op = "logout" =>
        LET set == Cookie("set", NoToken, ENVIRONMENT)
        IN /\ resp.status = HTTP_200_OK
           /\ resp.set_cookie.action = "delete"
           /\ resp.set_cookie.key = set.key
           /\ resp.set_cookie.path = set.path
           /\ resp.set_cookie.samesite = set.samesite
           /\ resp.set_cookie.httponly = set.httponly
           /\ resp.set_cookie.secure = set.secure

\* ----------------------------------------------------------------- C15
\* C15: a process whose SECRET_KEY is missing or shorter than 32 characters,
\* or whose ALGORITHM is empty, never takes a step: it serves no request
\* and makes no token; and no step of a process that is up changes the key
\* or the algorithm.
C15_KeyValidStep ==
    /\ SECRET_KEY # <<>>
    /\ Len(SECRET_KEY) >= MinSecretKeyLength
    /\ ALGORITHM # ""
    /\ SECRET_KEY' = SECRET_KEY
    /\ ALGORITHM' = ALGORITHM

C15_KeyValidated == [][C15_KeyValidStep]_vars

\* a process whose key is one character short is there, and has done
\* nothing
C15_Witness ==
    /\ Len(SECRET_KEY) = MinSecretKeyLength - 1
    /\ ALGORITHM = DefaultAlgorithm
    /\ ~Running
    /\ issued = {}
    /\ chain = {}
    /\ rotations = [w \in Workers |-> NoRotation]
    /\ req = NoRequest

\* ----------------------------------------------------------------- C16
\* C16: login, access-path validation (/me/), refresh-path validation and
\* rotation (/refresh/) and logout leave every record of the user table
\* unchanged.
C16_ReadOnlyStep ==
    Serves({"login", "me", "refresh", "logout"}) => usuario' = usuario

C16_LastAccessStep ==
    /\ Serves({"me", "refresh", "logout"}) => usuario' = usuario
    /\ Serves({"login"}) =>
          /\ resp'.status = HTTP_401_UNAUTHORIZED => usuario' = usuario
          /\ \A u \in UserIds :
                /\ [usuario'[u] EXCEPT !.fecha_ultimo_acceso = -1]
                     = [usuario[u] EXCEPT !.fecha_ultimo_acceso = -1]
                /\ usuario'[u] # usuario[u] =>
                     /\ u \in Matches(usuario, req'.username)
                     /\ usuario[u].contrasena
                          = get_password_hash(req'.password)
                     /\ usuario[u].es_activo
                     /\ usuario'[u].fecha_ultimo_acceso = now

C17_StoreFailureIsInternal ==
    db = "down" =>
        /\ req.op = "login" => resp.status = HTTP_500_INTERNAL_SERVER_ERROR
        /\ /\ req.op = "me"
           /\ jwt_decode(req.token, req.at) = "ok"
           /\ req.token.type = "access"
           /\ req.token.sub # Absent
           => resp.status = HTTP_500_INTERNAL_SERVER_ERROR
        /\ /\ req.op = "refresh"
           /\ decode_refresh_token(req.cookie, req.at).ok
           /\ req.cookie.sub # Absent
           => resp.status = HTTP_500_INTERNAL_SERVER_ERROR
        /\ resp.status = HTTP_500_INTERNAL_SERVER_ERROR
           => resp.detail # DataLayerDetail

\* ----------------------------------------------------------------- C18
\* C18: in every state of the user table and for every subject name, a
\* fresh refresh token for the name is accepted by the refresh path exactly
\* when a fresh access token for the name is accepted by the access path,
\* both resolve to the same user, and a name that is unknown, soft-deleted
\* or inactive is refused with 401 by both.
C18_SameLookup ==
    \A n \in FormNames :
        LET access == get_current_user(create_access_token(n, now),
                                       usuario, now)
            refresh == get_current_user_from_refresh(
                           create_refresh_token(n, now), usuario, now)
            live == {u \in Matches(usuario, n) : usuario[u].es_activo}
        IN /\ access.ok <=> refresh.ok
           /\ access.user = refresh.user
           /\ access.ok <=> live # {}
           /\ live = {} => Unauthorized(access) /\ Unauthorized(refresh)

\* the table holds a soft-deleted user and an inactive user, and both
\* paths refuse fresh tokens for either name
C18_Witness ==
    /\ \E u \in UserIds :
          /\ usuario[u].es_eliminado
          /\ ~AccessPath(create_access_token(usuario[u].nombre_usuario,
                                             now)).ok
          /\ ~RefreshPath(create_refresh_token(usuario[u].nombre_usuario,
                                               now)).ok
    /\ \E u \in UserIds :
          /\ Found(usuario, u)
          /\ ~usuario[u].es_activo
          /\ ~AccessPath(create_access_token(usuario[u].nombre_usuario,
                                             now)).ok
          /\ ~RefreshPath(create_refresh_token(usuario[u].nombre_usuario,
                                               now)).ok

\* ----------------------------------------------------------------- C19
\* C19: the access token and the refresh token of a pair issued together,
\* by login or by refresh, carry the same iat.
C19_SameIat ==
    resp.op \in {"login", "refresh"} /\ resp.status = HTTP_200_OK =>
        resp.access_token.iat = resp.set_cookie.value.iat

\* ----------------------------------------------------------------- C20
\* C20: under every configuration a running process can have, every token
\* issued has exp later than iat, by the lifetime of its kind.
C20_ExpiryAfterIssue ==
    \A t \in issued :
        /\ t.exp > t.iat
        /\ t.exp - t.iat =
             IF t.type = "access"
             THEN ACCESS_TOKEN_EXPIRE_MINUTES * SecondsPerMinute
             ELSE REFRESH_TOKEN_EXPIRE_DAYS * SecondsPerDay

\* ------------------------------------------------------------------ C21
\* C21: under every configuration the process starts with, the access
\* lifetime is strictly shorter than the refresh lifetime, and the access
\* token of every pair handed out by login or refresh expires before the
\* refresh token of the same pair.
C21_Asymmetry ==
    resp.op \in {"login", "refresh"} /\ resp.status = HTTP_200_OK =>
        /\ AccessTTL < RefreshTTL
        /\ resp.access_token.exp < resp.set_cookie.value.exp

\* ------------------------------------------------------------------ C22
\* C22: rotations are not serialized per subject.  Whatever the other
\* worker is doing, a /refresh/ call is answered as the refresh path
\* judges its own cookie; a call that passed validation is never blocked
\* at a later step; and once it has returned, its access token and its
\* refresh token are handed out and each is accepted by its own path
\* until its own expiry.
RotationStep(w) == rotation_access(w) \/ rotation_refresh(w)

C22_Independent ==
    \A w \in Workers :
        LET r == rotations[w]
            own == get_current_user_from_refresh(r.cookie, usuario, r.at)
        IN /\ InFlight(w) => own.ok /\ ENABLED RotationStep(w)
           /\ r.pc = "done" =>
                /\ ~own.ok => r.status = own.status /\ r.detail = own.detail
                /\ own.ok =>
                     /\ r.status = HTTP_200_OK
                     /\ {r.access_token, r.refresh_token} \subseteq issued
                     /\ r.access_token.type = "access"
                     /\ r.refresh_token.type = "refresh"
                     /\ now <= r.access_token.exp =>
                            AccessPath(r.access_token).ok
                     /\ now <= r.refresh_token.exp =>
                            RefreshPath(r.refresh_token).ok

\* two calls for one user with two different cookies have both returned
\* 200; the first was validated no later than the second and made its
\* tokens only after the second had returned
C22_Witness ==
    LET a == rotations[1]
        b == rotations[2]
    IN /\ a.pc = "done" /\ b.pc = "done"
       /\ a.status = HTTP_200_OK /\ b.status = HTTP_200_OK
       /\ a.cookie # b.cookie
       /\ a.user = b.user
       /\ a.at <= b.at
       /\ b.refresh_token.iat < a.access_token.iat
       /\ AccessPath(a.access_token).ok /\ AccessPath(b.access_token).ok
       /\ RefreshPath(a.refresh_token).ok /\ RefreshPath(b.refresh_token).ok

\* ------------------------------------------------------------------ C23
\* C23: rotation revokes nothing.  Every refresh token handed out so far
\* whose subject names an active user is accepted by the refresh path as
\* long as the clock has not passed its own exp, however many rotations
\* were served in between and whether or not the token itself was the one
\* presented to them.
ActiveSubject(t) ==
    \E u \in Matches(usuario, t.sub) : usuario[u].es_activo

C23_NotRevoked ==
    /\ \A t \in issued :
          t.type = "refresh" /\ now <= t.exp /\ ActiveSubject(t)
              => RefreshPath(t).ok
    /\ \A w \in Workers :
          LET r == rotations[w]
          IN r.pc = "done" /\ r.status = HTTP_200_OK /\ now <= r.cookie.exp
                => RefreshPath(r.cookie).ok
    /\ req.op = "refresh" /\ resp.status = HTTP_200_OK
          /\ now <= req.cookie.exp /\ ActiveSubject(req.cookie)
          => RefreshPath(req.cookie).ok

\* one refresh token was rotated twice, the second time after the first
\* rotation had returned and the clock had moved on, and is still accepted
C23_Witness ==
    LET a == rotations[1]
        b == rotations[2]
    IN /\ a.pc = "done" /\ b.pc = "done"
       /\ a.status = HTTP_200_OK /\ b.status = HTTP_200_OK
       /\ a.cookie = b.cookie
       /\ a.refresh_token.iat < b.at
       /\ RefreshPath(a.cookie).ok

\* ------------------------------------------------------------------ C24
\* C24: the gate takes the roles from the user store at each request.
\* Over a step that takes "Administrador" away from a user, every access
\* token that resolves to that user passed the admin gate before the step
\* and is refused with 403 after it; over a step that gives the role, every
\* such token was refused before and passes after.  The tokens are the
\* same strings throughout: no login lies in between.
AdminGate(t, store, clock) == RoleChecker(require_admin, t, store, clock)

C24_RoleStep ==
    \A t \in issued :
        LET before == get_current_user(t, usuario, now)
            after == get_current_user(t, usuario', now')
        IN before.ok /\ after.ok /\ before.user = after.user =>
             LET had == "Administrador" \in usuario[before.user].roles
                 has == "Administrador" \in usuario'[after.user].roles
             IN /\ had /\ ~has =>
                     /\ AdminGate(t, usuario, now).ok
                     /\ Forbidden(AdminGate(t, usuario', now'))
                /\ ~had /\ has =>
                     /\ Forbidden(AdminGate(t, usuario, now))
                     /\ AdminGate(t, usuario', now').ok
                /\ (had <=> has) =>
                     AdminGate(t, usuario, now).ok
                         = AdminGate(t, usuario', now').ok

C24_RolesReadPerRequest == [][C24_RoleStep]_vars

\* after one login and one revocation, the administrator of the initial
\* table called a gated endpoint with the token of that login and got 403
C24_Witness ==
    /\ req.op \in GatedOps
    /\ req.token \in issued
    /\ AccessPath(req.token).ok
    /\ usuario[AccessPath(req.token).user].nombre_usuario = "alice"
    /\ "Administrador" \notin usuario[AccessPath(req.token).user].roles
    /\ events = 2
    /\ resp.status = HTTP_403_FORBIDDEN

\* ------------------------------------------------------------------ C25
\* nothing but the stamp of a login has been written to the user table
StoreUnchanged ==
    \A u \in UserIds :
        [usuario[u] EXCEPT !.fecha_ultimo_acceso = -1] = usuario_at_start[u]

\* C25: rotation keeps the identity of the session.  When nothing but
\* logins writes to the user table, every token handed out, by a login or
\* by any rotation after it, is accepted by its own path until its exp and
\* resolves to the one usuario_id that was authenticated by the login its
\* chain began with, whichever spelling of the name it carries as its
\* subject.
C25_SameIdentity ==
    /\ StoreUnchanged
    /\ \A t \in issued :
          /\ now <= t.exp => OwnPath(t).ok
          /\ OwnPath(t).ok => ChainOf(chain, t) = {OwnPath(t).user}

\* a login under the spelling "Alice" was followed by a rotation: the new
\* pair carries the stored spelling and resolves to the user of the login
C25_Witness ==
    /\ StoreUnchanged
    /\ req.op = "refresh"
    /\ resp.status = HTTP_200_OK
    /\ req.cookie.sub # resp.access_token.sub
    /\ resp.set_cookie.value.sub = resp.access_token.sub
    /\ AccessPath(resp.access_token).ok
    /\ ChainOf(chain, req.cookie) = {AccessPath(resp.access_token).user}
    /\ RefreshPath(resp.set_cookie.value).user
         = RefreshPath(req.cookie).user

\* ------------------------------------------------------------------ C26
\* C26: a token never resolves to a user other than the one it was issued
\* for.  Whatever the management endpoints have done to the user table and
\* however often tokens were rotated, each validation path either rejects
\* a token that was handed out or resolves it to the usuario_id that was
\* authenticated by the login its chain began with.
C26_NeverAnotherUser ==
    \A t \in issued :
        /\ AccessPath(t).ok => AccessPath(t).user \in ChainOf(chain, t)
        /\ RefreshPath(t).ok => RefreshPath(t).user \in ChainOf(chain, t)

\* ------------------------------------------------------------------ C27
\* C27: login checks the secret before the active flag.  For every name
\* and secret a form can carry, a secret that does not verify gets 401
\* "Credenciales incorrectas" whether the name is unknown, names an active
\* user or names an inactive one, and "Usuario inactivo" is the answer only
\* when the name is known, the secret verifies and the user is inactive;
\* the responses of the login endpoint say the same.
WrongSecret(username, password) ==
    LET user == execute_auth_query(usuario, username)
    IN user = NoUser \/ ~verify_password(password, usuario[user].contrasena)

C27_SecretBeforeActive ==
    /\ \A n \in FormNames, p \in Passwords :
          LET auth == authenticate_user(n, p, usuario)
          IN /\ WrongSecret(n, p) =>
                  /\ auth.status = HTTP_401_UNAUTHORIZED
                  /\ auth.detail = "Credenciales incorrectas"
             /\ auth.detail = "Usuario inactivo" =>
                  /\ ~WrongSecret(n, p)
                  /\ ~usuario[execute_auth_query(usuario, n)].es_activo
    /\ resp.op = "login" =>
          /\ resp.detail = "Usuario inactivo" =>
                ~WrongSecret(req.username, req.password)
          /\ resp.status # HTTP_200_OK
                /\ WrongSecret(req.username, req.password)
                => resp.detail = "Credenciales incorrectas"

\* a login with a wrong secret for a user that was deactivated got the
\* answer an unknown name gets
C27_Witness ==
    /\ resp.op = "login"
    /\ execute_auth_query(usuario, req.username) # NoUser
    /\ ~usuario[execute_auth_query(usuario, req.username)].es_activo
    /\ WrongSecret(req.username, req.password)
    /\ resp.status = HTTP_401_UNAUTHORIZED
    /\ resp.detail = "Credenciales incorrectas"

\* ------------------------------------------------------------------ C28
\* C28: a login refused with 401 (unknown name, wrong secret, inactive
\* user) leaves the user table as it was.  A login writes to the table
\* only when the secret verified against an active user's record, and then
\* only that user's fecha_ultimo_acceso; the write comes before the roles
\* are fetched and the tokens made, so a login that got past
\* authenticate_user has written the stamp whether it goes on to answer
\* 200 or fails with 500 in its own handler.
C28_LoginStep ==
    Serves({"login"}) =>
        LET auth == authenticate_user(req'.username, req'.password, usuario)
        IN /\ resp'.status = HTTP_401_UNAUTHORIZED => usuario' = usuario
           /\ usuario' # usuario =>
                /\ auth.ok
                /\ usuario' = AuthenticatedStore(usuario, auth.user, now)
           /\ \/ resp'.status = HTTP_200_OK
              \/ /\ resp'.status = HTTP_500_INTERNAL_SERVER_ERROR
                 /\ resp'.detail = LoginFailedDetail
              => /\ auth.ok
                 /\ usuario'[auth.user].fecha_ultimo_acceso = now

SoftDeleted(u) == usuario[u].exists /\ usuario[u].es_eliminado

C29_SoftDeletedIsGone ==
    \A u \in UserIds :
        SoftDeleted(u) =>
            /\ \A p \in Passwords :
                  verify_password(p, usuario[u].contrasena) =>
                      LET auth == authenticate_user(
                                      usuario[u].nombre_usuario, p, usuario)
                      IN /\ auth.user # u
                         /\ Matches(usuario, usuario[u].nombre_usuario) = {}
                               => Unauthorized(auth)
            /\ \A t \in issued :
                  u \in ChainOf(chain, t) =>
                      /\ Unauthorized(AccessPath(t))
                      /\ Unauthorized(RefreshPath(t))


\* ------------------------------------------------- autorizacion multiple
\* AutorizacionService.autorizar_multiple: an empty list is refused before
\* any query; otherwise every entry is tried in order and the counts are
\* returned. faults are the positions at which the store fails.
autorizar_multiple(autorizaciones, faults) ==
    /\ multiple.pc = "idle"
    /\ IF autorizaciones = <<>>
       THEN /\ multiple' =
                  [NoMultiple EXCEPT !.pc = "done", !.faults = faults,
                                     !.antes = pdespe_supervisor00,
                                     !.status = 400]
            /\ UNCHANGED pdespe_supervisor00
       ELSE LET acc == procesar([exitosos |-> 0, fallidos |-> 0,
                                 errores |-> <<>>,
                                 table |-> pdespe_supervisor00],
                                autorizaciones, faults, 1)
                shown == IF Len(acc.errores) > ErroresMostrados
                         THEN ErroresMostrados ELSE Len(acc.errores)
            IN  /\ multiple' =
                      [pc |-> "done", autorizaciones |-> autorizaciones,
                       faults |-> faults, antes |-> pdespe_supervisor00,
                       status |-> 200, exitosos |-> acc.exitosos,
                       fallidos |-> acc.fallidos,
                       total_procesados |-> Len(autorizaciones),
                       errores |-> SubSeq(acc.errores, 1, shown)]
                /\ pdespe_supervisor00' = acc.table
    /\ UNCHANGED <<usuario, db, settings, now, events, budget, rotations,
                   issued, chain, req, resp>>

\* the caller has the answer; the service takes the next call
autorizar_multiple_return ==
    /\ multiple.pc = "done"
    /\ multiple' = NoMultiple
    /\ UNCHANGED <<usuario, db, settings, now, events, budget, rotations,
                   issued, chain, req, resp, pdespe_supervisor00>>

\* one call at a time, with any list and any store errors
NextAutorizacion ==
    \/ /\ multiple.pc = "idle"
       /\ \E autorizaciones \in Listas :
            \E faults \in SUBSET (1..Len(autorizaciones)) :
              autorizar_multiple(autorizaciones, faults)
    \/ autorizar_multiple_return

SpecAutorizacion == Init /\ [][NextAutorizacion]_vars

\* the entry at position i of the answered call is complete, names a
\* record of the table and met no store error
EntradaBuena(i) ==
    /\ multiple.autorizaciones[i].lote # Absent
    /\ multiple.autorizaciones[i].fecha_destajo # Absent
    /\ <<multiple.autorizaciones[i].lote,
         multiple.autorizaciones[i].fecha_destajo>> \in Claves
    /\ i \notin multiple.faults

\* the positions of the good entries that name the record k
EntradasDe(k) ==
    {i \in 1..Len(multiple.autorizaciones) :
        /\ EntradaBuena(i)
        /\ <<multiple.autorizaciones[i].lote,
             multiple.autorizaciones[i].fecha_destajo>> = k}

Ultima(positions) == CHOOSE i \in positions : \A j \in positions : j <= i

\* C30: autorizar_multiple tries every entry of a non-empty list whatever
\* happened to the others: the answer is 200, exitosos counts exactly the
\* entries that are complete, found and met no store error, exitosos +
\* fallidos = total_procesados = the length of the list, and every record
\* holds the state of the last good entry that names it (a failed entry
\* stops nothing after it); an empty list is answered 400 and the table is
\* as it was before the call.
C30_EveryEntryProcessed ==
    multiple.pc = "done" =>
        IF multiple.autorizaciones = <<>>
        THEN /\ multiple.status = 400
             /\ pdespe_supervisor00 = multiple.antes
        ELSE /\ multiple.status = 200
             /\ multiple.total_procesados = Len(multiple.autorizaciones)
             /\ multiple.exitosos + multiple.fallidos
                  = multiple.total_procesados
             /\ multiple.exitosos =
                  Cardinality({i \in 1..Len(multiple.autorizaciones) :
                                  EntradaBuena(i)})
             /\ \A k \in Claves :
                  pdespe_supervisor00[k] =
                    IF EntradasDe(k) = {}
                    THEN multiple.antes[k]
                    ELSE multiple.autorizaciones[Ultima(EntradasDe(k))]
                           .nuevo_estado

\* a call whose first entry failed (no such record) and whose second entry
\* authorised a pending record
C30_Witness ==
    /\ multiple.pc = "done"
    /\ Len(multiple.autorizaciones) = 2
    /\ multiple.autorizaciones[1].lote = LoteDesconocido
    /\ multiple.autorizaciones[1].fecha_destajo = FechaDestajo
    /\ multiple.autorizaciones[2].lote = "L2"
    /\ multiple.autorizaciones[2].nuevo_estado = Autorizado
    /\ multiple.antes[<<"L2", FechaDestajo>>] = Pendiente
    /\ pdespe_supervisor00[<<"L2", FechaDestajo>>] = Autorizado
    /\ multiple.exitosos = 1
    /\ multiple.fallidos = 1

====
